---- MODULE Spec2Model ----
(***************************************************************************)
(* A model of podcast_downloader/downloader.py: the naming engine          *)
(* (TitleShortener, get_podcast_name, _get_batch_folder, the filename of   *)
(* download_episode and save_index) and the download orchestrator          *)
(* (run, fetch_feed, download_episodes, download_episode, convert_audio).  *)
(*                                                                         *)
(* A string is a sequence of characters; a character is a one-character    *)
(* TLA+ string.  A path is a pair <<directory name, file name>> below      *)
(* output_dir.                                                             *)
(***************************************************************************)
EXTENDS Integers, Sequences, FiniteSets, TLC

VARIABLES
    unidecode,      \* the module global: TRUE iff the unidecode package was importable
    host,           \* the host: [ffmpeg], TRUE iff ffmpeg is installed
    cfg,            \* the constructor's arguments
    feed_url,       \* what feedparser.parse(feed_url) yields: ParseRaises or a feed
    run,            \* number of the current run of the program on this disk
    pc,             \* position of the main thread in run()
    result,         \* what run() returned
    feed_data,      \* self.feed_data
    podcast_name,   \* self.podcast_name
    convert,        \* self.convert
    jobs,           \* one record per submitted task of download_episodes
    counts,         \* success_count, download_count, skip_count of download_episodes
    dirs,           \* the directories that exist under output_dir
    files,          \* the files that exist under output_dir: path -> content
    hist,           \* history: the disk when the run started, the writes of the run
    plan,           \* naming only: the paths computed so far, by ordinal
    call            \* the last call of a naming function: its arguments and result

vars == << unidecode, host, cfg, feed_url, run, pc, result, feed_data, podcast_name,
           convert, jobs, counts, dirs, files, hist, plan, call >>

(***************************************************************************)
(* Characters and Python's str operations                                  *)
(***************************************************************************)

\* The characters of the model, in ascending code point order (str comparison
\* in Python compares code points).  "eacute" stands for the one character e with acute accent (U+00E9).
CharOrder ==
    << "\t", " ", "\"", "*", "-", ".", "/",
       "0", "1", "2", "3", "4", "5", "6", "7", "8", "9",
       ":", "<", ">", "?",
       "A", "B", "E", "T", "U", "\\", "_",
       "a", "b", "c", "d", "e", "h", "i", "l", "m", "n", "o", "p", "r", "s", "t",
       "|", "eacute" >>

Ord(c) == CHOOSE i \in 1..Len(CharOrder) : CharOrder[i] = c

\* s < t for two Python str values (lexicographic by code point).
RECURSIVE StrLess(_, _)
StrLess(s, t) ==
    IF t = <<>> THEN FALSE
    ELSE IF s = <<>> THEN TRUE
    ELSE IF Head(s) = Head(t) THEN StrLess(Tail(s), Tail(t))
    ELSE Ord(Head(s)) < Ord(Head(t))

DigitChars == <<"0", "1", "2", "3", "4", "5", "6", "7", "8", "9">>

\* str(n) for n >= 0
RECURSIVE Digits(_)
Digits(n) ==
    IF n < 10 THEN <<DigitChars[n + 1]>>
    ELSE Digits(n \div 10) \o <<DigitChars[(n % 10) + 1]>>

\* f"{n:0{w}d}": zero-padded to at least w characters, never truncated.
RECURSIVE PadLeft(_, _)
PadLeft(s, w) == IF Len(s) >= w THEN s ELSE PadLeft(<<"0">> \o s, w)

ZeroPadMutant(n, w) == Digits(n)

ZeroPad(n, w) == PadLeft(Digits(n), w)

\* \s of the re module, str.isspace
Whitespace == {" ", "\t"}

IllegalCharsMutant == {"\\", "/", ":", "*", "?", "\"", "<", ">"}

\* the character class [\\/:*?"<>|] of download_episode, save_index, get_podcast_name
IllegalChars == {"\\", "/", ":", "*", "?", "\"", "<", ">", "|"}

\* \w of the re module
WordChars ==
    {"0", "1", "2", "3", "4", "5", "6", "7", "8", "9", "_",
     "A", "B", "E", "T", "U",
     "a", "b", "c", "d", "e", "h", "i", "l", "m", "n", "o", "p", "r", "s", "t", "eacute"}

\* re.sub('[...]', '', s): delete every character of the class
RECURSIVE RemoveChars(_, _)
RemoveChars(s, class) ==
    IF s = <<>> THEN <<>>
    ELSE IF Head(s) \in class THEN RemoveChars(Tail(s), class)
    ELSE <<Head(s)>> \o RemoveChars(Tail(s), class)

\* re.sub('[^...]', '', s): keep only the characters of the class
RECURSIVE KeepChars(_, _)
KeepChars(s, class) ==
    IF s = <<>> THEN <<>>
    ELSE IF Head(s) \in class THEN <<Head(s)>> \o KeepChars(Tail(s), class)
    ELSE KeepChars(Tail(s), class)

\* re.sub(r'\s+', '_', s): every maximal run of whitespace becomes one underscore
RECURSIVE SubWhitespace(_)
SubWhitespace(s) ==
    IF s = <<>> THEN <<>>
    ELSE IF Head(s) \in Whitespace
         THEN IF Len(s) > 1 /\ s[2] \in Whitespace
              THEN SubWhitespace(Tail(s))
              ELSE <<"_">> \o SubWhitespace(Tail(s))
         ELSE <<Head(s)>> \o SubWhitespace(Tail(s))

\* re.sub(r'_+', '_', s)
RECURSIVE CollapseUnderscores(_)
CollapseUnderscores(s) ==
    IF s = <<>> THEN <<>>
    ELSE IF Head(s) = "_" /\ Len(s) > 1 /\ s[2] = "_"
         THEN CollapseUnderscores(Tail(s))
         ELSE <<Head(s)>> \o CollapseUnderscores(Tail(s))

RECURSIVE LStrip(_, _)
LStrip(s, class) ==
    IF s # <<>> /\ Head(s) \in class THEN LStrip(Tail(s), class) ELSE s

RECURSIVE RStrip(_, _)
RStrip(s, class) ==
    IF s # <<>> /\ s[Len(s)] \in class
    THEN RStrip(SubSeq(s, 1, Len(s) - 1), class)
    ELSE s

\* str.strip(chars)
Strip(s, class) == RStrip(LStrip(s, class), class)

\* s[:n]; a negative n counts from the end
Prefix(s, n) ==
    IF n >= 0 THEN SubSeq(s, 1, IF n < Len(s) THEN n ELSE Len(s))
    ELSE SubSeq(s, 1, IF Len(s) + n > 0 THEN Len(s) + n ELSE 0)

\* s.split('_'): never empty; '' splits into ['']
RECURSIVE SplitUnderscore(_)
SplitUnderscore(s) ==
    IF \A k \in 1..Len(s) : s[k] # "_" THEN <<s>>
    ELSE LET k == CHOOSE k \in 1..Len(s) :
                      s[k] = "_" /\ \A j \in 1..(k - 1) : s[j] # "_"
         IN  <<SubSeq(s, 1, k - 1)>> \o SplitUnderscore(SubSeq(s, k + 1, Len(s)))

\* '_'.join(words)
RECURSIVE JoinUnderscore(_)
JoinUnderscore(words) ==
    IF words = <<>> THEN <<>>
    ELSE IF Len(words) = 1 THEN words[1]
    ELSE words[1] \o <<"_">> \o JoinUnderscore(Tail(words))

\* str.isdigit
IsDigit(w) == w # <<>> /\ \A k \in 1..Len(w) : w[k] \in {DigitChars[d] : d \in 1..10}

LowerChar(c) ==
    CASE c = "A" -> "a" [] c = "B" -> "b" [] c = "E" -> "e" [] c = "T" -> "t"
      [] c = "U" -> "u" [] OTHER -> c

\* str.lower
Lower(w) == [k \in 1..Len(w) |-> LowerChar(w[k])]

(***************************************************************************)
(* TitleShortener                                                          *)
(***************************************************************************)

\* STOP_WORDS, word by word as in the source ("ugrave" stands for the one character u with grave accent)
STOP_WORDS ==
    { <<"l", "e">>, <<"l", "a">>, <<"l", "e", "s">>, <<"d", "e">>, <<"d", "u">>,
      <<"d", "e", "s">>, <<"u", "n">>, <<"u", "n", "e">>, <<"e", "t">>, <<"e", "n">>,
      <<"a", "u">>, <<"a", "u", "x">>, <<"c", "e">>, <<"c", "e", "t", "t", "e">>,
      <<"c", "e", "s">>, <<"s", "o", "n">>, <<"s", "a">>, <<"s", "e", "s">>,
      <<"m", "o", "n">>, <<"m", "a">>, <<"m", "e", "s">>, <<"t", "o", "n">>, <<"t", "a">>,
      <<"t", "e", "s">>, <<"n", "o", "t", "r", "e">>, <<"n", "o", "s">>,
      <<"v", "o", "t", "r", "e">>, <<"v", "o", "s">>, <<"l", "e", "u", "r">>,
      <<"l", "e", "u", "r", "s">>, <<"q", "u", "i">>, <<"q", "u", "e">>,
      <<"q", "u", "o", "i">>, <<"d", "o", "n", "t">>, <<"o", "ugrave">>,
      <<"p", "o", "u", "r">>, <<"p", "a", "r">>, <<"s", "u", "r">>, <<"s", "o", "u", "s">>,
      <<"a", "v", "e", "c">>, <<"s", "a", "n", "s">>, <<"d", "a", "n", "s">>,
      <<"e", "s", "t">>, <<"t", "h", "e">>, <<"a">>, <<"a", "n">>, <<"o", "f">>,
      <<"t", "o">>, <<"a", "n", "d">>, <<"i", "n">>, <<"o", "n">>, <<"a", "t">>,
      <<"f", "o", "r">>, <<"w", "i", "t", "h">>, <<"i", "s">>, <<"a", "r", "e">>,
      <<"w", "a", "s">>, <<"w", "e", "r", "e">>, <<"b", "e">>, <<"b", "e", "e", "n">>,
      <<"b", "e", "i", "n", "g">>, <<"h", "a", "v", "e">>, <<"h", "a", "s">>,
      <<"h", "a", "d">>, <<"d", "o">>, <<"d", "o", "e", "s">>, <<"d", "i", "d">>,
      <<"w", "i", "l", "l">>, <<"w", "o", "u", "l", "d">>, <<"c", "o", "u", "l", "d">>,
      <<"s", "h", "o", "u", "l", "d">>, <<"m", "a", "y">>, <<"m", "i", "g", "h", "t">>,
      <<"t", "h", "i", "s">>, <<"t", "h", "a", "t">>, <<"t", "h", "e", "s", "e">>,
      <<"t", "h", "o", "s", "e">>, <<"i", "t">>, <<"i", "t", "s">> }

\* unidecode(title), on the characters of the model
Unidecode(title) == [k \in 1..Len(title) |-> IF title[k] = "eacute" THEN "e" ELSE title[k]]

\* TitleShortener._clean_title
CleanTitle(title) ==
    LET t  == IF unidecode THEN Unidecode(title) ELSE title
        c1 == KeepChars(t, WordChars \cup Whitespace \cup {"-"})
        c2 == Strip(SubWhitespace(c1), {"_"})
    IN  CollapseUnderscores(c2)

\* TitleShortener._remove_stop_words
RemoveStopWords(title) ==
    LET words    == SplitUnderscore(title)
        filtered == SelectSeq(words, LAMBDA w : Lower(w) \notin STOP_WORDS \/ IsDigit(w))
    IN  IF filtered # <<>> THEN JoinUnderscore(filtered) ELSE title

\* TitleShortener._abbreviate_words
AbbreviateWords(title, min_word_length, keep_chars) ==
    LET words == SplitUnderscore(title)
    IN  JoinUnderscore([k \in 1..Len(words) |->
            IF Len(words[k]) > min_word_length /\ ~IsDigit(words[k])
            THEN Prefix(words[k], keep_chars)
            ELSE words[k]])

\* the for loop of _truncate_at_word_boundary: the words kept
RECURSIVE TruncateLoop(_, _, _, _)
TruncateLoop(words, res, current_length, max_length) ==
    IF words = <<>> THEN res
    ELSE LET new_length == current_length + Len(Head(words))
                           + (IF res # <<>> THEN 1 ELSE 0)
         IN  IF new_length <= max_length
             THEN TruncateLoop(Tail(words), Append(res, Head(words)), new_length, max_length)
             ELSE res

TruncateAtWordBoundaryMutant(title, max_length) ==
    IF Len(title) <= max_length THEN title
    ELSE LET res == TruncateLoop(SplitUnderscore(title), <<>>, 0, max_length)
         IN  IF res # <<>> THEN JoinUnderscore(res) ELSE Head(SplitUnderscore(title))

\* TitleShortener._truncate_at_word_boundary
TruncateAtWordBoundary(title, max_length) ==
    IF Len(title) <= max_length THEN title
    ELSE LET res == TruncateLoop(SplitUnderscore(title), <<>>, 0, max_length)
         IN  IF res # <<>> THEN JoinUnderscore(res) ELSE Prefix(title, max_length)

\* TitleShortener(max_length).shorten(title, prefix_length)
Shorten(max_length, title, prefix_length) ==
    LET available == max_length - prefix_length - 4
        cleaned   == CleanTitle(title)
        s1        == RemoveStopWords(cleaned)
        s2        == AbbreviateWords(s1, 6, 4)
        s3        == AbbreviateWords(s2, 5, 3)
    IN  IF available <= 0 THEN <<>>
        ELSE IF Len(cleaned) <= available THEN cleaned
        ELSE IF Len(s1) <= available THEN s1
        ELSE IF Len(s2) <= available THEN s2
        ELSE IF Len(s3) <= available THEN s3
        ELSE TruncateAtWordBoundary(s3, available)

(***************************************************************************)
(* PodcastDownloader: names                                                *)
(***************************************************************************)

\* the truth value of max_filename_length, which decides whether self.shortener
\* is set; None and 0 are both false and are both written 0 here
HasShortener(max_filename_length) == max_filename_length # 0

\* dict.get(key, default)
Get(d, key, default) == IF key \in DOMAIN d THEN d[key] ELSE default

\* self.feed_data before fetch_feed has set it
NoFeedData == <<>>

\* the cleaning without a length limit, of download_episode, save_index and
\* get_podcast_name
DefaultClean(title) ==
    Strip(SubWhitespace(RemoveChars(title, IllegalChars)), Whitespace)

\* PodcastDownloader.get_podcast_name
GetPodcastName(fd, max_filename_length) ==
    IF DOMAIN fd = {} THEN <<"p", "o", "d", "c", "a", "s", "t">>
    ELSE LET title == Get(fd.feed, "title", <<"p", "o", "d", "c", "a", "s", "t">>)
             n0 == CleanTitle(title)
             n1 == IF Len(n0) > max_filename_length THEN RemoveStopWords(n0) ELSE n0
             n2 == IF Len(n1) > max_filename_length THEN AbbreviateWords(n1, 6, 4) ELSE n1
             n3 == IF Len(n2) > max_filename_length
                   THEN TruncateAtWordBoundary(n2, max_filename_length) ELSE n2
         IN  IF HasShortener(max_filename_length) THEN n3
             ELSE Prefix(DefaultClean(title), 100)

GetIndexWidthMutant(count) == IF count <= 9 THEN 1 ELSE 2

\* PodcastDownloader._get_index_width
GetIndexWidth(count) == IF count <= 9 THEN 1 ELSE IF count <= 99 THEN 2 ELSE 3

GetBatchFolderMutant(name, index, total_count) ==
    IF total_count <= 100 THEN name
    ELSE Digits(index \div 100) \o <<"_">> \o name

\* PodcastDownloader._get_batch_folder: the directory's name under output_dir
GetBatchFolder(name, index, total_count) ==
    IF total_count <= 100 THEN name
    ELSE Digits((index - 1) \div 100) \o <<"_">> \o name

\* download_episode: the index shown in the filename and its width
DisplayIndex(index, total_count) ==
    IF total_count <= 100 THEN index ELSE (index - 1) % 100

IndexWidth(total_count) ==
    IF total_count <= 100 THEN GetIndexWidth(total_count) ELSE 2

\* download_episode: index_str and prefix
FilePrefix(index, total_count) ==
    ZeroPad(DisplayIndex(index, total_count), IndexWidth(total_count)) \o <<"_">>

EpisodeFileNameMutant(episode, index, total_count, max_filename_length) ==
    LET title  == Get(episode, "title",
                      <<"E", "p", "i", "s", "o", "d", "e", "_">> \o Digits(index))
        safe   == IF HasShortener(max_filename_length)
                  THEN Shorten(max_filename_length, title, 0)
                  ELSE DefaultClean(title)
    IN  safe \o <<".", "m", "p", "3">>

\* download_episode: filename, for the title the episode has in the feed
EpisodeFileName(episode, index, total_count, max_filename_length) ==
    LET title  == Get(episode, "title",
                      <<"E", "p", "i", "s", "o", "d", "e", "_">> \o Digits(index))
        prefix == FilePrefix(index, total_count)
        safe   == IF HasShortener(max_filename_length)
                  THEN Shorten(max_filename_length, title, Len(prefix))
                  ELSE DefaultClean(title)
    IN  prefix \o safe \o <<".", "m", "p", "3">>

ReverseMutant(s) == s

\* download_episodes: episodes, the retained entries oldest first
Reverse(s) == [k \in 1..Len(s) |-> s[Len(s) + 1 - k]]

Episodes(fd, max_episodes) == Reverse(Prefix(fd.entries, max_episodes))

\* download_episode: filepath, as <<directory name, file name>>
FilePath(name, episode, index, total_count, max_filename_length) ==
    << GetBatchFolder(name, index, total_count),
       EpisodeFileName(episode, index, total_count, max_filename_length) >>

\* download_episode: temp_path = filepath.with_suffix('.tmp.mp3')
TempPath(filepath) ==
    << filepath[1],
       SubSeq(filepath[2], 1, Len(filepath[2]) - 4) \o <<".", "t", "m", "p", ".", "m", "p", "3">> >>
(***************************************************************************)
(* The disk under output_dir                                               *)
(***************************************************************************)

\* Path.exists() of a file
Exists(fs, path) == path \in DOMAIN fs

\* open(path, 'w') ... write, and what ffmpeg -y does to its output file
WriteFile(fs, path, content) ==
    [q \in DOMAIN fs \cup {path} |-> IF q = path THEN content ELSE fs[q]]

UnlinkMutant(fs, path) == fs

\* Path.unlink()
Unlink(fs, path) == [q \in DOMAIN fs \ {path} |-> fs[q]]

\* Path.rename(target): the target is replaced if it exists
Rename(fs, from, to) ==
    [q \in (DOMAIN fs \ {from}) \cup {to} |-> IF q = to THEN fs[from] ELSE fs[q]]

EmptyDisk == [q \in {} |-> <<>>]

(***************************************************************************)
(* Inputs: the feed, the configuration, the host                           *)
(***************************************************************************)

\* the longest feed drawn
MaxEntries == 2

\* the runs of the program made one after another on the same output_dir
MaxRuns == 2

AudioLink == [type |-> "audio/mpeg"]
PageLink  == [type |-> "text/html"]

\* link.get('type', '').startswith('audio/')
IsAudio(link) == link.type \in {"audio/mpeg", "audio/mp4"}

\* the entries a feed may hold: with an audio enclosure (after another link),
\* and without one
EntryChoices ==
    { [title |-> <<"a", " ", "b">>, links |-> <<PageLink, AudioLink>>],
      [links |-> <<PageLink>>] }

FeedTitle == <<"T", "e", "d", ":", " ", "1">>

\* what feedparser.parse may yield: an exception, or a feed of 0..MaxEntries
\* entries, newest first.  An unreachable URL or a document that is no feed yields
\* a feed without entries and bozo set; an ill-formed feed of which an entry
\* could still be parsed yields that entry, and bozo set.
ParseRaises == [raises |-> TRUE]

FeedChoices ==
    {ParseRaises} \cup
    { [feed |-> [title |-> FeedTitle], entries |-> e, bozo |-> (e = <<>>)] :
        e \in UNION { [1..n -> EntryChoices] : n \in 0..MaxEntries } } \cup
    { [feed |-> [title |-> FeedTitle], entries |-> <<e>>, bozo |-> TRUE] :
        e \in EntryChoices }

ConfigChoices ==
    [ max_episodes : {0, 1, 30},
      max_filename_length : {0},
      parallel : {-1, 0, 2},
      convert : BOOLEAN ]

\* ffmpeg is on the host or not (its absence shows only if convert is asked for)
HostChoices(c) == IF c.convert THEN [ffmpeg : BOOLEAN] ELSE [ffmpeg : {TRUE}]

(***************************************************************************)
(* PodcastDownloader: the run                                              *)
(***************************************************************************)

ParallelMutant == Len(jobs)

\* __init__: self.parallel = max(1, parallel)
Parallel == IF cfg.parallel > 1 THEN cfg.parallel ELSE 1

InitConvertMutant(c, h) == c.convert

\* __init__: self.convert, after the check for ffmpeg
InitConvert(c, h) == c.convert /\ h.ffmpeg

\* history of the run: the disk when it started, the files download_episodes
\* itself has written (by name, in order), how each job of the previous run
\* ended and the path it had computed, and the messages that were printed
\* during the pool's lifetime outside "with self._print_lock"
NoHist ==
    [files0 |-> EmptyDisk, dirs0 |-> {}, writes |-> <<>>, prev |-> <<>>, paths |-> <<>>,
     unlocked |-> {}]

\* print(msg) by a worker or by the as_completed loop, not under the print lock
PrintUnlocked(h, msg) == [h EXCEPT !.unlocked = @ \cup {msg}]

NoCounts == [success_count |-> 0, download_count |-> 0, skip_count |-> 0]

\* no naming function has been called on its own
NoCall == [fn |-> "none", args |-> <<>>, result |-> <<>>]

\* a fresh output directory and a newly constructed PodcastDownloader
Init ==
    /\ unidecode = FALSE
    /\ cfg \in ConfigChoices
    /\ host \in HostChoices(cfg)
    /\ feed_url \in FeedChoices
    /\ run = 1
    /\ pc = "start"
    /\ result = "none"
    /\ feed_data = NoFeedData
    /\ podcast_name = <<>>
    /\ convert = InitConvert(cfg, host)
    /\ jobs = <<>>
    /\ counts = NoCounts
    /\ dirs = {}
    /\ files = EmptyDisk
    /\ hist = NoHist
    /\ plan = <<>>
    /\ call = NoCall

\* run -> fetch_feed: feedparser.parse raises
FetchFeedFails ==
    /\ pc = "start"
    /\ feed_url = ParseRaises
    /\ pc' = "done"
    /\ result' = "False"
    /\ UNCHANGED << unidecode, host, cfg, feed_url, run, feed_data, podcast_name,
                    convert, jobs, counts, dirs, files, hist, plan, call >>

\* run -> fetch_feed: feedparser.parse returns (bozo only prints a warning)
FetchFeed ==
    /\ pc = "start"
    /\ feed_url # ParseRaises
    /\ feed_data' = feed_url
    /\ pc' = "fetched"
    /\ UNCHANGED << unidecode, host, cfg, feed_url, run, result, podcast_name,
                    convert, jobs, counts, dirs, files, hist, plan, call >>

CreatePodcastDirectoryMutant ==
    /\ pc = "fetched"
    /\ podcast_name' = GetPodcastName(feed_data, cfg.max_filename_length)
    /\ dirs' = dirs \cup {podcast_name'}
    /\ pc' = "named"
    /\ UNCHANGED << unidecode, host, cfg, feed_url, run, result, feed_data,
                    convert, jobs, counts, files, hist, plan, call >>

\* run -> create_podcast_directory: stores the name, creates nothing
CreatePodcastDirectory ==
    /\ pc = "fetched"
    /\ podcast_name' = GetPodcastName(feed_data, cfg.max_filename_length)
    /\ pc' = "named"
    /\ UNCHANGED << unidecode, host, cfg, feed_url, run, result, feed_data,
                    convert, jobs, counts, dirs, files, hist, plan, call >>

\* download_episodes: no feed data or no entries
NoEpisodes ==
    /\ pc = "named"
    /\ (DOMAIN feed_data = {} \/ feed_data.entries = <<>>)
    /\ pc' = "done"
    /\ result' = "False"
    /\ UNCHANGED << unidecode, host, cfg, feed_url, run, feed_data, podcast_name,
                    convert, jobs, counts, dirs, files, hist, plan, call >>

\* download_episodes: total_count
TotalCount == Len(Episodes(feed_data, cfg.max_episodes))

NewJob ==
    [pc |-> "queued", state |-> "PENDING", ret |-> "none", filepath |-> <<>>,
     fetches |-> 0, resends |-> 0, opened |-> FALSE, collected |-> FALSE]

\* download_episodes: the tasks are built and all submitted to the executor
SubmitAll ==
    /\ pc = "named"
    /\ DOMAIN feed_data # {}
    /\ feed_data.entries # <<>>
    /\ jobs' = [i \in 1..TotalCount |-> NewJob]
    /\ counts' = NoCounts
    /\ pc' = "running"
    /\ UNCHANGED << unidecode, host, cfg, feed_url, run, result, feed_data,
                    podcast_name, convert, dirs, files, hist, plan, call >>
(***************************************************************************)
(* download_episode, one job of the pool                                   *)
(***************************************************************************)

\* a worker thread is executing the job
Running(j) == j.pc \notin {"queued", "returned"}

\* the executor starts the queued tasks in submission order, on at most
\* max_workers threads
CanStart(i) ==
    /\ pc = "running"
    /\ i \in DOMAIN jobs
    /\ jobs[i].pc = "queued"
    /\ \A k \in 1..(i - 1) : jobs[k].pc # "queued"
    /\ Cardinality({k \in DOMAIN jobs : Running(jobs[k])}) < Parallel

\* download_episode: the first link whose type starts with audio/
HasEnclosure(episode) ==
    \E k \in 1..Len(Get(episode, "links", <<>>)) : IsAudio(episode.links[k])

\* the job's arguments (ep, idx, total) of the task list
EpisodeOf(i) == Episodes(feed_data, cfg.max_episodes)[i]

JobPathMutant(i) ==
    LET path == FilePath(podcast_name, EpisodeOf(i), i, TotalCount, cfg.max_filename_length)
    IN  IF Exists(files, path) THEN << path[1], <<"n", "e", "w", "_">> \o path[2] >>
        ELSE path

\* download_episode: filepath of the task (ep, idx, total)
JobPath(i) ==
    FilePath(podcast_name, EpisodeOf(i), i, TotalCount, cfg.max_filename_length)

Return(j, state, ret) == [j EXCEPT !.pc = "returned", !.state = state, !.ret = ret]

\* download_episode, no audio enclosure: prints and returns False
NoEnclosure(i) ==
    /\ CanStart(i)
    /\ ~HasEnclosure(EpisodeOf(i))
    /\ jobs' = [jobs EXCEPT ![i] = Return(@, "NO_ENCLOSURE", "False")]
    /\ hist' = PrintUnlocked(hist, "Skipping: No audio enclosure found")
    /\ UNCHANGED << unidecode, host, cfg, feed_url, run, pc, result, feed_data,
                    podcast_name, convert, counts, dirs, files, plan, call >>

MkdirRaisesMutant(ds, d) == d \in ds

\* target_dir.mkdir(parents=True, exist_ok=True): os.mkdir creates the directory
\* in one system call or raises FileExistsError, which exist_ok=True swallows
\* for a directory; the call is outside the try of download_episode, so an
\* exception of it would leave the job
MkdirRaises(ds, d) == FALSE

\* the directories after target_dir.mkdir(parents=True, exist_ok=True)
Mkdir(ds, d) == ds \cup {d}

\* download_episode: mkdir(parents=True, exist_ok=True), then the file exists
SkipExisting(i) ==
    /\ CanStart(i)
    /\ HasEnclosure(EpisodeOf(i))
    /\ Exists(files, JobPath(i))
    /\ dirs' = Mkdir(dirs, JobPath(i)[1])
    /\ jobs' = [jobs EXCEPT ![i] =
                  IF MkdirRaises(dirs, JobPath(i)[1])
                  THEN Return([@ EXCEPT !.filepath = JobPath(i)], "FAILED", "raised")
                  ELSE Return([@ EXCEPT !.filepath = JobPath(i)], "SKIPPED", "skipped")]
    /\ UNCHANGED << unidecode, host, cfg, feed_url, run, pc, result, feed_data,
                    podcast_name, convert, counts, files, hist, plan, call >>

StartDownloadMutant(i) ==
    /\ CanStart(i)
    /\ HasEnclosure(EpisodeOf(i))
    /\ dirs' = dirs \cup {JobPath(i)[1]}
    /\ jobs' = [jobs EXCEPT ![i] =
                  [@ EXCEPT !.filepath = JobPath(i), !.pc = "get", !.state = "DOWNLOADING"]]
    /\ UNCHANGED << unidecode, host, cfg, feed_url, run, pc, result, feed_data,
                    podcast_name, convert, counts, files, hist, plan, call >>

\* download_episode: mkdir(parents=True, exist_ok=True), then the file is absent
StartDownload(i) ==
    /\ CanStart(i)
    /\ HasEnclosure(EpisodeOf(i))
    /\ ~Exists(files, JobPath(i))
    /\ dirs' = Mkdir(dirs, JobPath(i)[1])
    /\ jobs' = [jobs EXCEPT ![i] =
                  IF MkdirRaises(dirs, JobPath(i)[1])
                  THEN Return([@ EXCEPT !.filepath = JobPath(i)], "FAILED", "raised")
                  ELSE [@ EXCEPT !.filepath = JobPath(i), !.pc = "get",
                                 !.state = "DOWNLOADING"]]
    /\ UNCHANGED << unidecode, host, cfg, feed_url, run, pc, result, feed_data,
                    podcast_name, convert, counts, files, hist, plan, call >>

At(i, where) == pc = "running" /\ i \in DOMAIN jobs /\ jobs[i].pc = where

\* __init__: HTTPAdapter(max_retries=3), mounted for http:// and https://
MaxRetries == 3

GetRetryMutant(i) ==
    /\ At(i, "get")
    /\ jobs[i].resends < MaxRetries + 1
    /\ jobs' = [jobs EXCEPT ![i] = [@ EXCEPT !.resends = @ + 1]]
    /\ UNCHANGED << unidecode, host, cfg, feed_url, run, pc, result, feed_data,
                    podcast_name, convert, counts, dirs, files, hist, plan, call >>

\* inside session.get: the request the adapter sent met a connection or read
\* error (or a 413, 429 or 503 answer with Retry-After) and retries are left:
\* the adapter sends the GET again. resends counts the repeated requests of
\* the call in progress.
GetRetry(i) ==
    /\ At(i, "get")
    /\ jobs[i].resends < MaxRetries
    /\ jobs' = [jobs EXCEPT ![i] = [@ EXCEPT !.resends = @ + 1]]
    /\ UNCHANGED << unidecode, host, cfg, feed_url, run, pc, result, feed_data,
                    podcast_name, convert, counts, dirs, files, hist, plan, call >>

\* session.get or raise_for_status raises (network error, timeout, bad status),
\* or the file cannot be opened: control is in the except clause, nothing written
GetFails(i) ==
    /\ At(i, "get")
    /\ jobs' = [jobs EXCEPT ![i] =
                  [@ EXCEPT !.pc = "except", !.fetches = @ + 1, !.resends = 0]]
    /\ UNCHANGED << unidecode, host, cfg, feed_url, run, pc, result, feed_data,
                    podcast_name, convert, counts, dirs, files, hist, plan, call >>

\* session.get answers with a good status and open(filepath, 'wb') creates the file
GetOk(i) ==
    /\ At(i, "get")
    /\ files' = WriteFile(files, jobs[i].filepath, <<"partial", run>>)
    /\ jobs' = [jobs EXCEPT ![i] =
                  [@ EXCEPT !.pc = "stream", !.fetches = @ + 1, !.resends = 0,
                            !.opened = TRUE]]
    /\ UNCHANGED << unidecode, host, cfg, feed_url, run, pc, result, feed_data,
                    podcast_name, convert, counts, dirs, hist, plan, call >>

\* iter_content raises in mid-stream: control is in the except clause
StreamFails(i) ==
    /\ At(i, "stream")
    /\ jobs' = [jobs EXCEPT ![i] = [@ EXCEPT !.pc = "except"]]
    /\ UNCHANGED << unidecode, host, cfg, feed_url, run, pc, result, feed_data,
                    podcast_name, convert, counts, dirs, files, hist, plan, call >>

\* the last chunk is written and the file closed
StreamOk(i) ==
    /\ At(i, "stream")
    /\ files' = WriteFile(files, jobs[i].filepath, <<"full", run>>)
    /\ jobs' = [jobs EXCEPT ![i] = [@ EXCEPT !.pc = "downloaded", !.state = "DOWNLOADED"]]
    /\ UNCHANGED << unidecode, host, cfg, feed_url, run, pc, result, feed_data,
                    podcast_name, convert, counts, dirs, hist, plan, call >>

ExceptCleanupMutant(i) ==
    /\ At(i, "except")
    /\ jobs' = [jobs EXCEPT ![i] = Return(@, "FAILED", "error")]
    /\ UNCHANGED << unidecode, host, cfg, feed_url, run, pc, result, feed_data,
                    podcast_name, convert, counts, dirs, files, hist, plan, call >>

\* the except clause: the partial file, if any, is removed; the job has failed
ExceptCleanup(i) ==
    /\ At(i, "except")
    /\ files' = IF Exists(files, jobs[i].filepath)
                THEN Unlink(files, jobs[i].filepath) ELSE files
    /\ jobs' = [jobs EXCEPT ![i] = Return(@, "FAILED", "error")]
    /\ UNCHANGED << unidecode, host, cfg, feed_url, run, pc, result, feed_data,
                    podcast_name, convert, counts, dirs, hist, plan, call >>

\* if self.convert is false: Done, the job returns "downloaded"
ReturnDownloaded(i) ==
    /\ At(i, "downloaded")
    /\ ~convert
    /\ jobs' = [jobs EXCEPT ![i] = Return(@, "DOWNLOADED", "downloaded")]
    /\ UNCHANGED << unidecode, host, cfg, feed_url, run, pc, result, feed_data,
                    podcast_name, convert, counts, dirs, files, hist, plan, call >>

\* if self.convert: convert_audio is called on filepath and temp_path
StartConvert(i) ==
    /\ At(i, "downloaded")
    /\ convert
    /\ jobs' = [jobs EXCEPT ![i] = [@ EXCEPT !.pc = "convert", !.state = "CONVERTING"]]
    /\ UNCHANGED << unidecode, host, cfg, feed_url, run, pc, result, feed_data,
                    podcast_name, convert, counts, dirs, files, hist, plan, call >>

\* convert_audio returns True: ffmpeg has written temp_path
ConvertOk(i) ==
    /\ At(i, "convert")
    /\ files' = WriteFile(files, TempPath(jobs[i].filepath), <<"converted", run>>)
    /\ jobs' = [jobs EXCEPT ![i] = [@ EXCEPT !.pc = "unlink"]]
    /\ UNCHANGED << unidecode, host, cfg, feed_url, run, pc, result, feed_data,
                    podcast_name, convert, counts, dirs, hist, plan, call >>

\* convert_audio returns False (exit status, timeout, exception); ffmpeg may or
\* may not have left an output file
ConvertFails(i) ==
    /\ At(i, "convert")
    /\ \E leftover \in BOOLEAN :
         files' = IF leftover
                  THEN WriteFile(files, TempPath(jobs[i].filepath), <<"partial", run>>)
                  ELSE files
    /\ jobs' = [jobs EXCEPT ![i] = [@ EXCEPT !.pc = "discard", !.state = "CONVERT_FAILED"]]
    /\ UNCHANGED << unidecode, host, cfg, feed_url, run, pc, result, feed_data,
                    podcast_name, convert, counts, dirs, hist, plan, call >>

DiscardTempMutant(i) ==
    /\ At(i, "discard")
    /\ jobs' = [jobs EXCEPT ![i] = Return(@, "CONVERT_FAILED", "downloaded")]
    /\ UNCHANGED << unidecode, host, cfg, feed_url, run, pc, result, feed_data,
                    podcast_name, convert, counts, dirs, files, hist, plan, call >>

\* conversion failed: temp_path is removed if it exists, the original is kept
DiscardTemp(i) ==
    /\ At(i, "discard")
    /\ files' = IF Exists(files, TempPath(jobs[i].filepath))
                THEN Unlink(files, TempPath(jobs[i].filepath)) ELSE files
    /\ jobs' = [jobs EXCEPT ![i] = Return(@, "CONVERT_FAILED", "downloaded")]
    /\ UNCHANGED << unidecode, host, cfg, feed_url, run, pc, result, feed_data,
                    podcast_name, convert, counts, dirs, hist, plan, call >>

\* conversion succeeded: filepath.unlink()
UnlinkOriginal(i) ==
    /\ At(i, "unlink")
    /\ files' = Unlink(files, jobs[i].filepath)
    /\ jobs' = [jobs EXCEPT ![i] = [@ EXCEPT !.pc = "rename"]]
    /\ UNCHANGED << unidecode, host, cfg, feed_url, run, pc, result, feed_data,
                    podcast_name, convert, counts, dirs, hist, plan, call >>

\* conversion succeeded: temp_path.rename(filepath), Done
RenameTemp(i) ==
    /\ At(i, "rename")
    /\ files' = Rename(files, TempPath(jobs[i].filepath), jobs[i].filepath)
    /\ jobs' = [jobs EXCEPT ![i] = Return(@, "CONVERTED", "downloaded")]
    /\ UNCHANGED << unidecode, host, cfg, feed_url, run, pc, result, feed_data,
                    podcast_name, convert, counts, dirs, hist, plan, call >>
(***************************************************************************)
(* download_episodes: collecting the results, the index, the end of run()  *)
(***************************************************************************)

\* the body of the as_completed loop for one returned job: a 4-tuple is tallied,
\* the bare False of a job without enclosure cannot be unpacked and is reported
\* as a task error
TallyMutant(c, ret) ==
    IF ret \in {"skipped", "downloaded"}
    THEN [ success_count  |-> c.success_count + 1,
           download_count |-> c.download_count + 1,
           skip_count     |-> c.skip_count + (IF ret = "skipped" THEN 1 ELSE 0) ]
    ELSE c

Tally(c, ret) ==
    IF ret \in {"skipped", "downloaded"}
    THEN [ success_count  |-> c.success_count + 1,
           download_count |-> c.download_count + (IF ret = "downloaded" THEN 1 ELSE 0),
           skip_count     |-> c.skip_count + (IF ret = "skipped" THEN 1 ELSE 0) ]
    ELSE c

Collect(i) ==
    /\ At(i, "returned")
    /\ ~jobs[i].collected
    /\ counts' = Tally(counts, jobs[i].ret)
    /\ jobs' = [jobs EXCEPT ![i] = [@ EXCEPT !.collected = TRUE]]
    /\ hist' = IF jobs[i].ret \in {"False", "raised"}
               THEN PrintUnlocked(hist, "Task error")
               ELSE hist
    /\ UNCHANGED << unidecode, host, cfg, feed_url, run, pc, result, feed_data,
                    podcast_name, convert, dirs, files, plan, call >>

\* download_episodes: the numbers of the summary line, beside download_count
SummarySkipped == counts.success_count - counts.download_count

SummaryFailed == Len(jobs) - counts.success_count

\* every future has been collected and the executor has shut down
PoolDone ==
    /\ pc = "running"
    /\ \A i \in DOMAIN jobs : jobs[i].collected
    /\ pc' = "save_index"
    /\ UNCHANGED << unidecode, host, cfg, feed_url, run, result, feed_data,
                    podcast_name, convert, jobs, counts, dirs, files, hist, plan, call >>

\* save_index: folder and index_path
IndexPath == << GetBatchFolder(podcast_name, 1, TotalCount),
                <<"i", "n", "d", "e", "x", ".", "m", "d">> >>

\* save_index: index_str and prefix of row i
IndexPrefix(i, total_count) ==
    IF total_count > 100
    THEN ZeroPad((i - 1) % 100, 2) \o <<"_">>
    ELSE ZeroPad(i, GetIndexWidth(total_count)) \o <<"_">>

\* save_index: the filename of row i, "the filename that would be created"
IndexFileName(episode, i, total_count, max_filename_length) ==
    LET episode_title == Get(episode, "title", <<"U", "n", "t", "i", "t", "l", "e", "d">>)
        prefix == IndexPrefix(i, total_count)
        safe   == IF HasShortener(max_filename_length)
                  THEN Shorten(max_filename_length, episode_title, Len(prefix))
                  ELSE DefaultClean(episode_title)
    IN  prefix \o safe \o <<".", "m", "p", "3">>

\* save_index: the File column of the table, one row per retained entry,
\* oldest first
IndexRows ==
    LET episodes == Reverse(Prefix(feed_data.entries, cfg.max_episodes))
    IN  [i \in 1..Len(episodes) |->
            IndexFileName(episodes[i], i, TotalCount, cfg.max_filename_length)]

\* save_index writes index.md into the folder; download_episodes prints the
\* summary and run() returns True
SaveIndex ==
    /\ pc = "save_index"
    /\ IndexPath[1] \in dirs
    /\ files' = WriteFile(files, IndexPath, <<"index", run, IndexRows>>)
    /\ hist' = [hist EXCEPT !.writes = Append(@, IndexPath[2])]
    /\ pc' = "done"
    /\ result' = "True"
    /\ UNCHANGED << unidecode, host, cfg, feed_url, run, feed_data, podcast_name,
                    convert, jobs, counts, dirs, plan, call >>

\* save_index: open(index_path, 'w') raises FileNotFoundError when no job has
\* created the folder; the exception leaves download_episodes and run()
SaveIndexRaises ==
    /\ pc = "save_index"
    /\ IndexPath[1] \notin dirs
    /\ pc' = "done"
    /\ result' = "raised"
    /\ UNCHANGED << unidecode, host, cfg, feed_url, run, feed_data, podcast_name,
                    convert, jobs, counts, dirs, files, hist, plan, call >>

\* the program is started again with the same arguments, on the same feed and
\* the disk as the last run left it
NextRun ==
    /\ pc = "done"
    /\ run < MaxRuns
    /\ run' = run + 1
    /\ pc' = "start"
    /\ result' = "none"
    /\ feed_data' = NoFeedData
    /\ podcast_name' = <<>>
    /\ convert' = InitConvert(cfg, host)
    /\ jobs' = <<>>
    /\ counts' = NoCounts
    /\ hist' = [files0 |-> files, dirs0 |-> dirs, writes |-> <<>>,
                prev |-> [i \in DOMAIN jobs |-> jobs[i].state],
                paths |-> [i \in DOMAIN jobs |-> jobs[i].filepath],
                unlocked |-> {}]
    /\ UNCHANGED << unidecode, host, cfg, feed_url, dirs, files, plan, call >>

JobStep(i) ==
    \/ NoEnclosure(i) \/ SkipExisting(i) \/ StartDownload(i)
    \/ GetRetry(i) \/ GetFails(i) \/ GetOk(i) \/ StreamFails(i) \/ StreamOk(i) \/ ExceptCleanup(i)
    \/ ReturnDownloaded(i) \/ StartConvert(i) \/ ConvertOk(i) \/ ConvertFails(i)
    \/ DiscardTemp(i) \/ UnlinkOriginal(i) \/ RenameTemp(i)

Next ==
    \/ FetchFeedFails \/ FetchFeed \/ CreatePodcastDirectory \/ NoEpisodes
    \/ SubmitAll
    \/ \E i \in 1..(MaxEntries + 1) : JobStep(i) \/ Collect(i)
    \/ PoolDone \/ SaveIndex \/ SaveIndexRaises \/ NextRun

Spec == Init /\ [][Next]_vars

\* The process is terminated while the pool is running: the program installs
\* no signal handler and has no finally clause, so every thread stops where it
\* is and the disk stays as it is, partial and temporary files included.
Interrupt ==
    /\ pc = "running"
    /\ pc' = "done"
    /\ result' = "killed"
    /\ UNCHANGED << unidecode, host, cfg, feed_url, run, feed_data, podcast_name,
                    convert, jobs, counts, dirs, files, hist, plan, call >>

NextInterrupt == Next \/ Interrupt

\* the runs of the program, each of which may be terminated from outside
SpecInterrupt == Init /\ [][NextInterrupt]_vars

\* a step of one run: by the main thread, by a worker of the pool or by the
\* collecting loop
RunStep ==
    \/ FetchFeedFails \/ FetchFeed \/ CreatePodcastDirectory \/ NoEpisodes
    \/ SubmitAll \/ PoolDone \/ SaveIndex \/ SaveIndexRaises
    \/ \E i \in 1..(MaxEntries + 1) : JobStep(i) \/ Collect(i)

\* The runs under fair scheduling: while some thread of the run can take a step,
\* a step is taken. session.get has timeout=(10, 60) and ffmpeg timeout=300, so
\* a transfer or a conversion that was started ends; as_completed yields every
\* future that is done.
Fairness == WF_vars(RunStep)

\* the runs with two workers and no limit below the feed's length
InitFair == Init /\ cfg.parallel = 2 /\ cfg.max_episodes = 30

\* these runs under fair scheduling; starting the program again is the
\* operator's choice and is not forced
SpecFair == InitFair /\ [][Next]_vars /\ Fairness
(***************************************************************************)
(* The naming of a whole feed: download_episodes builds the task list and  *)
(* download_episode computes each task's path.  Feeds of up to some         *)
(* hundred entries are named here, task by task, without downloading.      *)
(***************************************************************************)

\* feeds of every length up to MaxSmall are named, and the lengths around the
\* changes of index width and of batch
MaxSmall == 11

NamingLengths == (1..MaxSmall) \cup {99, 100, 101, 150, 201}

NamingEntryChoices ==
    { [title |-> <<"b">>, links |-> <<AudioLink>>],
      [title |-> <<"a", " ", "b">>, links |-> <<AudioLink>>],
      [title |-> <<>>, links |-> <<AudioLink>>],
      [links |-> <<AudioLink>>] }

\* a feed of n entries, newest first, whose entries are alternately a and b
NamingFeed(n, a, b) ==
    [feed |-> [title |-> FeedTitle],
     entries |-> [k \in 1..n |-> IF k % 2 = 1 THEN a ELSE b],
     bozo |-> FALSE]

NamingConfigChoices ==
    [ max_episodes : {1000},
      max_filename_length : {0, 27},
      parallel : {2},
      convert : {FALSE} ]

\* run() has fetched the feed and stored the podcast name; no task is named yet
InitNaming ==
    /\ unidecode \in BOOLEAN
    /\ host = [ffmpeg |-> FALSE]
    /\ cfg \in NamingConfigChoices
    /\ \E n \in NamingLengths, a \in NamingEntryChoices, b \in NamingEntryChoices :
         feed_url = NamingFeed(n, a, b)
    /\ run = 1
    /\ pc = "naming"
    /\ result = "none"
    /\ feed_data = feed_url
    /\ podcast_name = GetPodcastName(feed_data, cfg.max_filename_length)
    /\ convert = FALSE
    /\ jobs = <<>>
    /\ counts = NoCounts
    /\ dirs = {}
    /\ files = EmptyDisk
    /\ hist = NoHist
    /\ plan = <<>>
    /\ call = NoCall

\* download_episode up to filepath (mkdir included), for the next task
\* (ep, idx, total) of the list
PlanEpisode ==
    /\ pc = "naming"
    /\ Len(plan) < TotalCount
    /\ dirs' = dirs \cup {JobPath(Len(plan) + 1)[1]}
    /\ plan' = Append(plan, JobPath(Len(plan) + 1))
    /\ UNCHANGED << unidecode, host, cfg, feed_url, run, pc, result, feed_data,
                    podcast_name, convert, jobs, counts, files, hist, call >>

\* every task is named: download_episodes goes on to save_index
AllPlanned ==
    /\ pc = "naming"
    /\ Len(plan) = TotalCount
    /\ pc' = "save_index"
    /\ UNCHANGED << unidecode, host, cfg, feed_url, run, result, feed_data,
                    podcast_name, convert, jobs, counts, dirs, files, hist, plan, call >>

NextNaming == PlanEpisode \/ AllPlanned \/ SaveIndex

SpecNaming == InitNaming /\ [][NextNaming]_vars
(***************************************************************************)
(* The naming of one title: TitleShortener.shorten, get_podcast_name and   *)
(* the filename of download_episode, called on titles made of words,       *)
(* whitespace and special characters.                                      *)
(***************************************************************************)

\* the longest title drawn, in pieces
MaxPieces == 3

\* the nine characters no filename may hold, in a row
AllIllegal == <<"\\", "/", ":", "*", "?", "\"", "<", ">", "|">>

\* the pieces titles are made of: a stop word, words that strategies 2 and 3
\* abbreviate, a number, whitespace, an underscore, special characters, an
\* accented letter
TitlePieces ==
    { <<"t", "h", "e">>,
      <<"p", "o", "d", "c", "a", "s", "t">>,
      <<"m", "o", "t", "h", "e", "r">>,
      <<"1", "2", "3", "4", "5", "6", "7">>,
      <<" ">>,
      <<"_">>,
      AllIllegal,
      <<"eacute">> }

\* a title of 26 characters, longer than the budget of 27 leaves it
LongTitle ==
    <<"t", "h", "e", " ", "p", "o", "d", "c", "a", "s", "t", "\t",
      "m", "o", "t", "h", "e", "r", " ", "1", "2", "3", "4", "5", "6", "7">>

RECURSIVE Concat(_)
Concat(pieces) == IF pieces = <<>> THEN <<>> ELSE Head(pieces) \o Concat(Tail(pieces))

TitleChoices ==
    { Concat(ps) : ps \in UNION { [1..n -> TitlePieces] : n \in 0..MaxPieces } }
    \cup {LongTitle}

\* max_filename_length: None (written 0), or a budget
TitleConfigChoices ==
    [ max_episodes : {30},
      max_filename_length : {0, 9, 13, 27},
      parallel : {2},
      convert : {FALSE} ]

\* len(prefix) for index widths 1, 2 and 3
PrefixLengths == {2, 3, 4}

\* a newly constructed PodcastDownloader; no naming function has been called
InitTitles ==
    /\ unidecode \in BOOLEAN
    /\ host = [ffmpeg |-> FALSE]
    /\ cfg \in TitleConfigChoices
    /\ feed_url = ParseRaises
    /\ run = 1
    /\ pc = "titles"
    /\ result = "none"
    /\ feed_data = NoFeedData
    /\ podcast_name = <<>>
    /\ convert = FALSE
    /\ jobs = <<>>
    /\ counts = NoCounts
    /\ dirs = {}
    /\ files = EmptyDisk
    /\ hist = NoHist
    /\ plan = <<>>
    /\ call = NoCall

\* self.shortener.shorten(title, prefix_length)
CallShorten ==
    /\ pc = "titles" /\ call.fn = "none"
    /\ HasShortener(cfg.max_filename_length)
    /\ \E title \in TitleChoices, prefix_length \in PrefixLengths :
         call' = [ fn     |-> "shorten",
                   args   |-> <<title, prefix_length>>,
                   result |-> Shorten(cfg.max_filename_length, title, prefix_length) ]
    /\ UNCHANGED << unidecode, host, cfg, feed_url, run, pc, result, feed_data,
                    podcast_name, convert, jobs, counts, dirs, files, hist, plan >>

\* get_podcast_name(), of a feed with this title
CallGetPodcastName ==
    /\ pc = "titles" /\ call.fn = "none"
    /\ \E title \in TitleChoices :
         call' = [ fn     |-> "get_podcast_name",
                   args   |-> <<title>>,
                   result |-> GetPodcastName([feed |-> [title |-> title]],
                                             cfg.max_filename_length) ]
    /\ UNCHANGED << unidecode, host, cfg, feed_url, run, pc, result, feed_data,
                    podcast_name, convert, jobs, counts, dirs, files, hist, plan >>

\* download_episode up to filename, of the only episode of a feed, with this
\* title or without a title
CallEpisodeFileName ==
    /\ pc = "titles" /\ call.fn = "none"
    /\ \E episode \in { [title |-> t, links |-> <<AudioLink>>] : t \in TitleChoices }
                        \cup { [links |-> <<AudioLink>>] } :
         call' = [ fn     |-> "download_episode",
                   args   |-> <<episode>>,
                   result |-> EpisodeFileName(episode, 1, 1, cfg.max_filename_length) ]
    /\ UNCHANGED << unidecode, host, cfg, feed_url, run, pc, result, feed_data,
                    podcast_name, convert, jobs, counts, dirs, files, hist, plan >>

\* the episode positions the folder is asked for: a feed that is not batched,
\* and the last episode of a feed of 101
BatchChoices == { <<1, 100>>, <<101, 101>> }

\* create_podcast_directory() and _get_batch_folder(index, total_count), of a
\* feed with this title
CallGetBatchFolder ==
    /\ pc = "titles" /\ call.fn = "none"
    /\ \E title \in TitleChoices, at \in BatchChoices :
         call' = [ fn     |-> "_get_batch_folder",
                   args   |-> <<title, at[1], at[2]>>,
                   result |-> GetBatchFolder(
                                 GetPodcastName([feed |-> [title |-> title]],
                                                cfg.max_filename_length),
                                 at[1], at[2]) ]
    /\ UNCHANGED << unidecode, host, cfg, feed_url, run, pc, result, feed_data,
                    podcast_name, convert, jobs, counts, dirs, files, hist, plan >>

NextTitles ==
    CallShorten \/ CallGetPodcastName \/ CallEpisodeFileName \/ CallGetBatchFolder

SpecTitles == InitTitles /\ [][NextTitles]_vars
(***************************************************************************)
(* The manifest store: load_downloaded_items, which the tests call on a    *)
(* podcast directory.  The method is not part of downloader.py; it is      *)
(* modelled after the specification of the manifest store.                 *)
(***************************************************************************)

\* the longest manifest drawn, in checklist lines
MaxItems == 3

ReadmeName == <<"R", "E", "A", "D", "M", "E", ".", "m", "d">>

\* one checklist line: '- [x] {title}' if completed, else '- [ ] {title}'
ItemChoices ==
    [ title : { <<"a">>, <<"b">>, <<"a", " ", "b">> }, completed : BOOLEAN ]

\* what the podcast directory may hold: no README, a README that cannot be
\* read as a manifest, or a manifest of 0..MaxItems checklist lines
ManifestDiskChoices(dir) ==
    {EmptyDisk}
    \cup { WriteFile(EmptyDisk, << dir, ReadmeName >>, <<"unreadable", 0>>) }
    \cup { WriteFile(EmptyDisk, << dir, ReadmeName >>, <<"manifest", items>>) :
             items \in UNION { [1..n -> ItemChoices] : n \in 0..MaxItems } }

\* load(directory): the set of the titles marked completed; a missing or
\* unreadable file gives the empty set
CompletedTitles(fs, dir) ==
    LET path == << dir, ReadmeName >> IN
    IF ~Exists(fs, path) THEN {}
    ELSE IF fs[path][1] # "manifest" THEN {}
    ELSE { fs[path][2][k].title :
             k \in { j \in 1..Len(fs[path][2]) : fs[path][2][j].completed } }

\* the downloader of the tests: constructed, feed_data set, and
\* create_podcast_directory called
InitManifest ==
    /\ unidecode = FALSE
    /\ host = [ffmpeg |-> FALSE]
    /\ cfg = [max_episodes |-> 30, max_filename_length |-> 0, parallel |-> 2,
              convert |-> FALSE]
    /\ feed_url = [feed |-> [title |-> FeedTitle], entries |-> <<>>, bozo |-> FALSE]
    /\ run = 1
    /\ pc = "manifest"
    /\ result = "none"
    /\ feed_data = feed_url
    /\ podcast_name = GetPodcastName(feed_data, cfg.max_filename_length)
    /\ convert = FALSE
    /\ jobs = <<>>
    /\ counts = NoCounts
    /\ dirs = {podcast_name}
    /\ files \in ManifestDiskChoices(podcast_name)
    /\ hist = NoHist
    /\ plan = <<>>
    /\ call = NoCall

LoadDownloadedItemsMutant ==
    /\ pc = "manifest" /\ call.fn = "none"
    /\ call' = [ fn     |-> "load_downloaded_items",
                 args   |-> <<podcast_name>>,
                 result |-> CompletedTitles(files, podcast_name) ]
    /\ result' = IF Exists(files, << podcast_name, ReadmeName >>) THEN result ELSE "raised"
    /\ UNCHANGED << unidecode, host, cfg, feed_url, run, pc, feed_data,
                    podcast_name, convert, jobs, counts, dirs, files, hist, plan >>

\* load_downloaded_items(): returns the completed titles and raises nothing
LoadDownloadedItems ==
    /\ pc = "manifest" /\ call.fn = "none"
    /\ call' = [ fn     |-> "load_downloaded_items",
                 args   |-> <<podcast_name>>,
                 result |-> CompletedTitles(files, podcast_name) ]
    /\ UNCHANGED << unidecode, host, cfg, feed_url, run, pc, result, feed_data,
                    podcast_name, convert, jobs, counts, dirs, files, hist, plan >>

NextManifest == LoadDownloadedItems

SpecManifest == InitManifest /\ [][NextManifest]_vars
(***************************************************************************)
(* Properties of the manifest store                                        *)
(***************************************************************************)

\* C18: loading the completion state from a podcast directory without a
\* manifest (README) file gives the empty collection and does not fail the run.
LoadWithoutManifest ==
    (/\ call.fn = "load_downloaded_items"
     /\ ~Exists(files, << call.args[1], ReadmeName >>)) =>
        /\ call.result = {}
        /\ result # "raised"

\* C18's case: the podcast directory exists and holds no file, and the load has
\* returned the empty collection
LoadWithoutManifestWitness ==
    /\ call.fn = "load_downloaded_items"
    /\ podcast_name \in dirs
    /\ files = EmptyDisk
    /\ call.result = {}
    /\ result = "none"
(***************************************************************************)
(* Properties of the naming                                                *)
(***************************************************************************)

\* C1: of any two episodes that download_episode places in the same directory,
\* the one with the smaller ordinal has the lexicographically smaller filename
\* (stated for the episode named last against every episode named before it;
\* every pair is met in the state where its later episode has just been named).
ChronologicalOrder ==
    \A i \in 1..(Len(plan) - 1) :
        plan[i][1] = plan[Len(plan)][1] => StrLess(plan[i][2], plan[Len(plan)][2])

\* C1's case: ordinals 9 and 10 share a directory, their numbers differ in
\* length and the title of the later one sorts first
ChronologicalOrderWitness ==
    /\ Len(plan) >= 10
    /\ plan[9][1] = plan[10][1]
    /\ Get(EpisodeOf(9), "title", <<>>) = <<"b">>
    /\ Get(EpisodeOf(10), "title", <<>>) = <<"a", " ", "b">>
    /\ StrLess(plan[9][2], plan[10][2])

\* the number a filename starts with, up to its first underscore
RECURSIVE LeadingNumber(_, _)
LeadingNumber(name, acc) ==
    IF name = <<>> \/ Head(name) = "_" THEN acc
    ELSE LeadingNumber(Tail(name), 10 * acc + (Ord(Head(name)) - Ord("0")))

LeadingWidth(name) == (CHOOSE k \in 1..Len(name) : name[k] = "_" /\ \A j \in 1..(k - 1) : name[j] # "_") - 1

\* C10: with more than 100 episodes, ordinal k is in directory
\* '<(k-1) div 100>_<podcast>' under the 2-digit index (k-1) mod 100 and no
\* directory holds more than 100 episodes; with at most 100 episodes, every
\* episode is in directory '<podcast>' under its ordinal (stated for the episode
\* named last, in every state).
Batching ==
    LET k == Len(plan) IN
    k > 0 =>
        IF TotalCount > 100
        THEN /\ plan[k][1] = Digits((k - 1) \div 100) \o <<"_">> \o podcast_name
             /\ LeadingWidth(plan[k][2]) = 2
             /\ LeadingNumber(plan[k][2], 0) = (k - 1) % 100
             /\ Cardinality({i \in 1..k : plan[i][1] = plan[k][1]}) <= 100
        ELSE /\ plan[k][1] = podcast_name
             /\ LeadingNumber(plan[k][2], 0) = k

\* C10's case: 150 episodes, the 101st is index 00 of batch 1 and the 100th is
\* index 99 of batch 0
BatchingWitness ==
    /\ TotalCount = 150
    /\ Len(plan) = 150
    /\ plan[101][1] = <<"1", "_">> \o podcast_name
    /\ SubSeq(plan[101][2], 1, 3) = <<"0", "0", "_">>
    /\ plan[100][1] = <<"0", "_">> \o podcast_name
    /\ SubSeq(plan[100][2], 1, 3) = <<"9", "9", "_">>

\* the number of episodes in the directory of ordinal k, once all are named
DirSize(k) ==
    IF TotalCount <= 100 THEN TotalCount
    ELSE LET rest == TotalCount - 100 * ((k - 1) \div 100)
         IN  IF rest < 100 THEN rest ELSE 100

\* the width that fits the numbers of n entries
WidthFor(n) == IF n <= 9 THEN 1 ELSE IF n <= 99 THEN 2 ELSE 3

\* the filenames of a directory have indices of the same width (stated for the
\* episode named last against those named before it)
SameWidthInDirectory ==
    \A i \in 1..(Len(plan) - 1) :
        plan[i][1] = plan[Len(plan)][1] =>
            LeadingWidth(plan[i][2]) = LeadingWidth(plan[Len(plan)][2])

\* C11 as stated: in every directory all filenames have the same index width,
\* which is 1 if the directory's batch (or the total when unbatched) has at most
\* 9 entries, 2 if it has at most 99, and 3 otherwise.
IndexWidthPerBatch ==
    LET k == Len(plan) IN
    k > 0 => /\ SameWidthInDirectory
             /\ LeadingWidth(plan[k][2]) = WidthFor(DirSize(k))

\* C11 amended: in every directory all filenames have the same index width;
\* with at most 100 episodes it is 1 for a total of at most 9, 2 for at most 99
\* and 3 for 100; with more than 100 episodes it is 2 in every batch directory,
\* however many entries the batch has.
IndexWidthRule ==
    LET k == Len(plan) IN
    k > 0 => /\ SameWidthInDirectory
             /\ LeadingWidth(plan[k][2]) =
                    IF TotalCount > 100 THEN 2 ELSE WidthFor(TotalCount)

\* C11's case: of 101 episodes, the one episode of batch 1 and the hundred of
\* batch 0 have indices of width 2
IndexWidthWitness ==
    /\ TotalCount = 101
    /\ Len(plan) = 101
    /\ plan[101][1] # plan[100][1]
    /\ LeadingWidth(plan[101][2]) = 2
    /\ LeadingWidth(plan[100][2]) = 2

\* C19: for every in-scope episode, with or without a title, the filename in
\* the episode's row of index.md is the filename download_episode uses for the
\* episode.
IndexAgreesWithPlan ==
    (pc = "done" /\ Exists(files, IndexPath)) =>
        /\ Len(files[IndexPath][3]) = Len(plan)
        /\ \A i \in 1..Len(plan) : files[IndexPath][3][i] = plan[i][2]
(***************************************************************************)
(* Properties of the naming of one title                                   *)
(***************************************************************************)

\* the characters no filename and no directory name may hold
ForbiddenChars == {"\\", "/", ":", "*", "?", "\"", "<", ">", "|"}

\* the title the last call named: of the feed, or of the episode
CalledTitle ==
    IF call.fn = "download_episode"
    THEN Get(call.args[1], "title", <<"E", "p", "i", "s", "o", "d", "e", "_", "1">>)
    ELSE call.args[1]

\* the title token of the name the last call produced: the directory name, or
\* the filename without its prefix '1_' and its extension
CalledToken ==
    IF call.fn = "download_episode"
    THEN SubSeq(call.result, 3, Len(call.result) - 4)
    ELSE call.result

\* C12: with or without a length budget, none of the characters \ / : * ? " < > |
\* is in the filename of download_episode or in the name of get_podcast_name.
NoIllegalChars ==
    call.fn \in {"download_episode", "get_podcast_name"} =>
        \A k \in 1..Len(call.result) : call.result[k] \notin ForbiddenChars

\* C12's case: without a budget, an episode whose title holds the nine
\* characters among words has a filename without them
NoIllegalCharsWitness ==
    /\ call.fn = "download_episode"
    /\ cfg.max_filename_length = 0
    /\ CalledTitle = <<"t", "h", "e">> \o AllIllegal \o <<"t", "h", "e">>
    /\ call.result = <<"1", "_", "t", "h", "e", "t", "h", "e", ".", "m", "p", "3">>

\* C13: with or without a length budget, the title token of the filename and the
\* directory name hold no whitespace, neither start nor end with an underscore,
\* and hold exactly one underscore for each run of whitespace inside the title
\* (stated for the titles that hold no underscore themselves, whose tokens
\* then hold no two underscores in a row).
WhitespaceSanitized ==
    (/\ call.fn \in {"download_episode", "get_podcast_name"}
     /\ \A k \in 1..Len(CalledTitle) : CalledTitle[k] # "_") =>
        LET token == CalledToken IN
        /\ \A k \in 1..Len(token) : token[k] \notin Whitespace
        /\ token # <<>> => (token[1] # "_" /\ token[Len(token)] # "_")
        /\ \A k \in 1..(Len(token) - 1) : ~(token[k] = "_" /\ token[k + 1] = "_")

\* C14: shorten(title, p) with budget B and B - p - 4 > 0 returns at most
\* B - p - 4 characters, and the filename download_episode assembles of prefix,
\* token and '.mp3' has at most B characters.
LengthBudget ==
    LET B == cfg.max_filename_length IN
    /\ (call.fn = "shorten" /\ B - call.args[2] - 4 > 0) =>
           Len(call.result) <= B - call.args[2] - 4
    /\ (call.fn = "download_episode" /\ HasShortener(B) /\ B - 2 - 4 > 0) =>
           Len(call.result) <= B

\* C14's case: budget 27 and prefix length 4 leave 19 characters, which a title
\* of 26 characters is shortened to
LengthBudgetWitness ==
    /\ call.fn = "shorten"
    /\ cfg.max_filename_length = 27
    /\ call.args = <<LongTitle, 4>>
    /\ Len(CleanTitle(LongTitle)) = 26
    /\ Len(call.result) = 19
(***************************************************************************)
(* Properties of the run                                                   *)
(***************************************************************************)

\* the audio files of the in-scope episodes, among the files of a disk
EpisodeFiles(fs) ==
    [q \in {JobPath(i) : i \in DOMAIN jobs} \cap DOMAIN fs |-> fs[q]]

\* the run started on a disk that held the file of every in-scope episode that
\* has an audio enclosure, and there is such an episode
AllExpectedAtStart ==
    /\ \E i \in DOMAIN jobs : HasEnclosure(EpisodeOf(i))
    /\ \A i \in DOMAIN jobs :
           HasEnclosure(EpisodeOf(i)) => Exists(hist.files0, JobPath(i))

\* C2: a run started on a directory that already holds every expected episode
\* file fetches nothing, ends every job SKIPPED and leaves the completion state
\* (which episode files exist, and their contents) as it was.
Idempotence ==
    (pc = "done" /\ jobs # <<>> /\ AllExpectedAtStart) =>
        /\ \A i \in DOMAIN jobs : jobs[i].fetches = 0 /\ jobs[i].state = "SKIPPED"
        /\ EpisodeFiles(files) = EpisodeFiles(hist.files0)

\* C3: a job that entered DOWNLOADING and has returned FAILED has left no file
\* at its target path.
FailureCleanup ==
    \A i \in DOMAIN jobs :
        (jobs[i].pc = "returned" /\ jobs[i].state = "FAILED") =>
            ~Exists(files, jobs[i].filepath)

\* C3's case: the transfer failed in mid-stream, after the file had been created
FailureCleanupWitness ==
    \E i \in DOMAIN jobs :
        /\ jobs[i].pc = "returned" /\ jobs[i].state = "FAILED"
        /\ jobs[i].opened
        /\ ~Exists(files, jobs[i].filepath)

\* C4: a job whose transfer completed and whose conversion failed has returned
\* success ("downloaded"), its temporary file does not exist and the file as
\* downloaded is at its target path.
ConversionFailureKeepsDownload ==
    \A i \in DOMAIN jobs :
        (jobs[i].pc = "returned" /\ jobs[i].state = "CONVERT_FAILED") =>
            /\ jobs[i].ret = "downloaded"
            /\ ~Exists(files, TempPath(jobs[i].filepath))
            /\ Exists(files, jobs[i].filepath)
            /\ files[jobs[i].filepath] = <<"full", run>>

\* C4's case: the conversion of a downloaded file failed and the job returned
ConversionFailureWitness ==
    \E i \in DOMAIN jobs :
        /\ jobs[i].pc = "returned" /\ jobs[i].state = "CONVERT_FAILED"
        /\ jobs[i].collected
        /\ counts.download_count >= 1

\* C5: an episode whose target file existed when the run started is never
\* fetched; its job only goes from PENDING to SKIPPED, returns success, and the
\* file stays as it was, whatever the other jobs do.
ExistingFilesUntouched ==
    \A i \in DOMAIN jobs :
        Exists(hist.files0, JobPath(i)) =>
            /\ jobs[i].state \in {"PENDING", "SKIPPED"}
            /\ jobs[i].fetches = 0
            /\ jobs[i].pc = "returned" => (jobs[i].state = "SKIPPED" /\ jobs[i].ret = "skipped")
            /\ pc \in {"save_index", "done"} => jobs[i].state = "SKIPPED"
            /\ Exists(files, JobPath(i))
            /\ files[JobPath(i)] = hist.files0[JobPath(i)]

\* C5's case: a run has ended in which one job skipped an existing file while
\* another job downloaded and a file was written beside it
ExistingFilesWitness ==
    /\ pc = "done"
    /\ \E i \in DOMAIN jobs, k \in DOMAIN jobs :
        /\ Exists(hist.files0, JobPath(i))
        /\ jobs[i].state = "SKIPPED"
        /\ jobs[k].state \in {"DOWNLOADED", "CONVERTED"}
        /\ jobs[k].fetches = 1

\* how a job that succeeded ended
Succeeded == {"SKIPPED", "DOWNLOADED", "CONVERTED", "CONVERT_FAILED"}

\* C6: a run that follows a run of the same feed and configuration attempts a
\* transfer for exactly the episodes whose job ended FAILED in that run, and
\* skips every episode whose job succeeded in it.
RecoveryByRerun ==
    (run >= 2 /\ jobs # <<>>) =>
        /\ DOMAIN hist.prev = DOMAIN jobs
        /\ \A i \in DOMAIN jobs :
            /\ jobs[i].fetches > 0 => hist.prev[i] = "FAILED"
            /\ jobs[i].state = "SKIPPED" => hist.prev[i] \in Succeeded
            /\ pc = "done" =>
                /\ hist.prev[i] = "FAILED" => jobs[i].fetches > 0
                /\ hist.prev[i] \in Succeeded => jobs[i].state = "SKIPPED"

\* C6's case: the run before had a failed and a successful job; the failed one
\* has been fetched again and the successful one skipped
RecoveryWitness ==
    /\ run = 2 /\ pc = "done"
    /\ \E i \in DOMAIN jobs, k \in DOMAIN jobs :
        /\ hist.prev[i] = "FAILED" /\ jobs[i].fetches = 1
        /\ hist.prev[k] = "DOWNLOADED" /\ jobs[k].state = "SKIPPED"

\* the path of ordinal i as the feed and the configuration alone give it
PathOf(feed, c, i) ==
    FilePath(GetPodcastName(feed, c.max_filename_length),
             Episodes(feed, c.max_episodes)[i], i,
             Len(Episodes(feed, c.max_episodes)), c.max_filename_length)

Ended(states) == {i \in DOMAIN jobs : jobs[i].state \in states}

\* C16: an episode without an audio enclosure is not fetched and produces no
\* file, and once every job is collected the summary counts it as skipped:
\* skipped is the number of existing and enclosure-less episodes, failed the
\* number of failed transfers.
NoEnclosureCountedSkipped ==
    /\ \A i \in DOMAIN jobs :
           ~HasEnclosure(EpisodeOf(i)) =>
               /\ jobs[i].fetches = 0
               /\ jobs[i].filepath = <<>>
               /\ ~Exists(files, JobPath(i))
    /\ (pc \in {"save_index", "done"} /\ jobs # <<>>) =>
           /\ SummarySkipped = Cardinality(Ended({"SKIPPED", "NO_ENCLOSURE"}))
           /\ SummaryFailed = Cardinality(Ended({"FAILED"}))

\* min(max_episodes, feed length), for the feed as feedparser gave it
InScope ==
    IF cfg.max_episodes < Len(feed_url.entries)
    THEN cfg.max_episodes ELSE Len(feed_url.entries)

\* C20: the jobs are the first min(max_episodes, feed length) entries of the
\* feed, and the job of ordinal i works on the entry at feed position
\* total_count - i + 1 (newest first): it ends without enclosure exactly if that
\* entry has none, and the file it names carries the ordinal i.
OrdinalAssignment ==
    (pc \in {"running", "save_index"} \/ jobs # <<>>) =>
        /\ Len(jobs) = InScope
        /\ \A i \in DOMAIN jobs :
            LET entry == feed_url.entries[InScope - i + 1] IN
            /\ jobs[i].pc = "returned" =>
                   ((jobs[i].state = "NO_ENCLOSURE") <=> ~HasEnclosure(entry))
            /\ jobs[i].filepath # <<>> =>
                   /\ HasEnclosure(entry)
                   /\ LeadingNumber(jobs[i].filepath[2], 0) = i

\* C20's case: of two entries the newer has no audio enclosure; the job of
\* ordinal 1 has downloaded the older and the job of ordinal 2 found no enclosure
OrdinalAssignmentWitness ==
    /\ pc = "done" /\ result = "True"
    /\ Len(feed_url.entries) = 2 /\ Len(jobs) = 2
    /\ ~HasEnclosure(feed_url.entries[1]) /\ HasEnclosure(feed_url.entries[2])
    /\ jobs[1].state = "DOWNLOADED"
    /\ jobs[2].state = "NO_ENCLOSURE"

\* the transitions of a job's state the state machine allows
AllowedTransitions ==
    { <<"PENDING", "SKIPPED">>, <<"PENDING", "DOWNLOADING">>,
      <<"DOWNLOADING", "DOWNLOADED">>, <<"DOWNLOADING", "FAILED">>,
      <<"DOWNLOADED", "CONVERTING">>,
      <<"CONVERTING", "CONVERTED">>, <<"CONVERTING", "CONVERT_FAILED">> }

\* the states in which a job has completed its transfer
TransferCompleted == {"DOWNLOADED", "CONVERTING", "CONVERTED", "CONVERT_FAILED"}

\* C21: within a run, a job's state changes only by PENDING -> SKIPPED,
\* PENDING -> DOWNLOADING, DOWNLOADING -> DOWNLOADED, DOWNLOADING -> FAILED,
\* DOWNLOADED -> CONVERTING, CONVERTING -> CONVERTED and CONVERTING ->
\* CONVERT_FAILED; a job whose conversion failed returns success, and a job that
\* has completed its transfer never becomes FAILED.
JobStateMachine ==
    [][ \A i \in DOMAIN jobs \cap DOMAIN jobs' :
          /\ jobs'[i].state # jobs[i].state =>
                 << jobs[i].state, jobs'[i].state >> \in AllowedTransitions
          /\ jobs[i].state \in TransferCompleted => jobs'[i].state # "FAILED"
          /\ (jobs'[i].pc = "returned" /\ jobs'[i].state = "CONVERT_FAILED") =>
                 jobs'[i].ret = "downloaded" ]_vars

\* the number of times download_episodes has written a file of this name
Written(name) == Cardinality({k \in 1..Len(hist.writes) : hist.writes[k] = name})

\* C7: in a run that has downloaded a non-empty feed and returned, the manifest
\* and the index have each been written exactly once, and nothing of the two is
\* written while a job has not returned.
ManifestAndIndexOnce ==
    /\ (hist.writes # <<>> => \A i \in DOMAIN jobs : jobs[i].pc = "returned")
    /\ (pc = "done" /\ result = "True") =>
           Written(IndexPath[2]) = 1 /\ Written(ReadmeName) = 1

\* where the manifest of the podcast directory is kept
ReadmePath == << IndexPath[1], ReadmeName >>

\* C17: after a completed run, whichever jobs failed, the persisted manifest
\* lists every in-scope episode in chronological order and marks an episode
\* completed if and only if its audio file exists at its target path.
ManifestReflectsDisk ==
    (pc = "done" /\ result = "True") =>
        /\ Exists(files, ReadmePath)
        /\ files[ReadmePath] =
              << "manifest", run, [i \in DOMAIN jobs |-> Exists(files, JobPath(i))] >>

\* C8: whatever the episodes' outcomes, a run on a feed with an in-scope entry
\* runs every job to its end, writes the index and returns True.
EpisodeErrorsNeverAbort ==
    (pc = "done" /\ jobs # <<>>) =>
        /\ \A i \in DOMAIN jobs : jobs[i].pc = "returned"
        /\ Written(IndexPath[2]) = 1
        /\ result = "True"

\* the feed could not be fetched or parsed: feedparser raised, or gave no entry
\* (a feed with parsing issues of which entries were parsed is downloaded, with a
\* warning)
FeedFailed == feed_url = ParseRaises \/ feed_url.entries = <<>>

Termination ==
    (pc = "running" /\ jobs # <<>>) ~>
        /\ pc = "done"
        /\ \A i \in DOMAIN jobs : jobs[i].pc = "returned"
        /\ Written(IndexPath[2]) = 1
        /\ result = "True"

\* C23: at every moment of a run the number of jobs a worker is executing is at
\* most max(1, parallel), also for parallel = 0 and parallel < 0, and the jobs
\* submitted are one per in-scope episode.
BoundedParallelism ==
    /\ Cardinality({i \in DOMAIN jobs : jobs[i].pc \notin {"queued", "returned"}})
           <= (IF cfg.parallel >= 1 THEN cfg.parallel ELSE 1)
    /\ jobs # <<>> =>
           Len(jobs) = Len(Episodes(feed_data, cfg.max_episodes))

\* parallel is not positive and a job waits in the queue while the one worker
\* transfers another
BoundedParallelismWitness ==
    /\ cfg.parallel <= 0
    /\ \E i, k \in DOMAIN jobs :
          /\ jobs[i].state = "DOWNLOADING"
          /\ jobs[k].pc = "queued"
          /\ HasEnclosure(EpisodeOf(k))

\* C24: every message printed while the jobs of a run are running, by a worker
\* or by the collecting loop, is printed under the print lock.
OutputSerialization == hist.unlocked = {}

\* C25: the target path of an episode differs from the target path and from the
\* temporary conversion path of every other in-scope episode of the run, and so
\* do their temporary paths, whatever the titles (equal, empty or missing).
UniqueTargetPaths ==
    \A i \in 1..(Len(plan) - 1) :
        LET a == plan[i]
            b == plan[Len(plan)]
        IN  /\ a # b
            /\ TempPath(a) # b
            /\ a # TempPath(b)
            /\ TempPath(a) # TempPath(b)

\* two entries of the same title, or of an empty one, are named in one directory
UniqueTargetPathsWitness ==
    /\ pc = "naming"
    /\ \E i \in 1..(Len(plan) - 1) :
          /\ EpisodeOf(i) = EpisodeOf(Len(plan))
          /\ Get(EpisodeOf(i), "title", <<"x">>) = <<>>
          /\ plan[i][1] = plan[Len(plan)][1]

\* C26: from the completion of a job's transfer on, a file is at the job's
\* target path in every state: the download or the converted file.
AtomicReplacement ==
    \A i \in DOMAIN jobs :
        jobs[i].state \in TransferCompleted =>
            /\ Exists(files, jobs[i].filepath)
            /\ files[jobs[i].filepath][1] \in {"full", "converted"}

\* C27: the summary line of a run counts every in-scope episode once:
\* downloaded + skipped + failed = total_count, downloaded is the number of
\* jobs of the run that transferred their file (converted or not), skipped the
\* number of jobs that found their file, failed the number of the others.
SummaryTallies ==
    (pc = "done" /\ result = "True") =>
        /\ counts.download_count + SummarySkipped + SummaryFailed = TotalCount
        /\ Len(jobs) = TotalCount
        /\ counts.download_count =
               Cardinality(Ended({"DOWNLOADED", "CONVERTED", "CONVERT_FAILED"}))
        /\ SummarySkipped = Cardinality(Ended({"SKIPPED"}))
        /\ SummaryFailed = Cardinality(Ended({"FAILED", "NO_ENCLOSURE"}))

\* a run that ends with one episode downloaded and one skipped
SummaryTalliesWitness ==
    /\ pc = "done" /\ result = "True"
    /\ counts.download_count = 1
    /\ SummarySkipped = 1
    /\ SummaryFailed = 0

\* conversion was asked for and ffmpeg is not on the host
TranscoderMissing == cfg.convert /\ ~host.ffmpeg

\* C28: when conversion is asked for and ffmpeg is missing at construction, no
\* job is ever CONVERTING, a job that has transferred its file stays DOWNLOADED
\* and returns "downloaded" with the file as downloaded at its path and no
\* temporary file, and a run in which a job transferred its file returns True.
TranscoderAbsent ==
    /\ [](TranscoderMissing =>
            /\ \A i \in DOMAIN jobs :
                  /\ jobs[i].state \notin {"CONVERTING", "CONVERTED", "CONVERT_FAILED"}
                  /\ jobs[i].state = "DOWNLOADED" =>
                        /\ files[jobs[i].filepath] = <<"full", run>>
                        /\ ~Exists(files, TempPath(jobs[i].filepath))
                        /\ jobs[i].ret \in {"none", "downloaded"}
            /\ (pc = "done" /\ Ended({"DOWNLOADED"}) # {}) => result = "True")
    /\ [][TranscoderMissing =>
            \A i \in DOMAIN jobs \cap DOMAIN jobs' :
                jobs[i].state = "DOWNLOADED" => jobs'[i].state = "DOWNLOADED"]_vars

\* ffmpeg is missing, a job has returned its download and the run has ended
TranscoderAbsentWitness ==
    /\ TranscoderMissing
    /\ pc = "done" /\ result = "True"
    /\ \E i \in DOMAIN jobs :
          jobs[i].pc = "returned" /\ jobs[i].state = "DOWNLOADED"

\* C29: after a completed run every directory that received episodes holds an
\* index.md written by that run.
IndexInEveryDirectory ==
    (pc = "done" /\ result = "True") =>
        \A i \in DOMAIN plan :
            /\ Exists(files, << plan[i][1], IndexPath[2] >>)
            /\ files[<< plan[i][1], IndexPath[2] >>][1] = "index"
            /\ files[<< plan[i][1], IndexPath[2] >>][2] = run

\* the requests for a job's enclosure URL so far in the run: those of the call
\* of session.get in progress, or the one call that has returned
Requests(j) == IF j.pc = "get" THEN 1 + j.resends ELSE j.fetches

DirectoryNameBudget ==
    (HasShortener(cfg.max_filename_length)
       /\ call.fn \in {"get_podcast_name", "_get_batch_folder"}) =>
        Len(call.result) <= cfg.max_filename_length

\* C33: an episode whose file was left partly written by an interrupted run is
\* not resolved as SKIPPED by the next run.
InterruptedDownloadRedone ==
    \A i \in DOMAIN jobs :
        ( /\ jobs[i].filepath # <<>>
          /\ Exists(hist.files0, jobs[i].filepath)
          /\ hist.files0[jobs[i].filepath][1] = "partial" ) =>
            jobs[i].state # "SKIPPED"

====
